---- MODULE Spec2Model ----
(***************************************************************************)
(* Model of sofia_utils/printing.py: str_ind and str_recursively.          *)
(*                                                                         *)
(* A value graph lives in `heap`: every value has an identity (its key in  *)
(* heap, the model of id(data)), a kind and, for composites, an ordered    *)
(* sequence of (key, ref) children.  The recursion of str_recursively is   *)
(* an explicit stack of frames; `visited` is the set shared by all frames  *)
(* of one top-level call.  A rendered string is the sequence of its lines  *)
(* (the pieces between '\n'), each line a prefix (a run of one character)  *)
(* and a text.                                                             *)
(***************************************************************************)
EXTENDS Integers, Sequences, FiniteSets, TLC

VARIABLES heap, style, stack, visited, status, err, out, arg, ret, log

vars == <<heap, style, stack, visited, status, err, out, arg, ret, log>>

(***************************************************************************)
(* Program constants                                                       *)
(***************************************************************************)
DEFAULT_INDENT == "tabs"

INDENT_SPACES == 4

B64_CHECK_LEN == 2000

MAX_RECURSION_DEPTH == 10

(***************************************************************************)
(* Bounds of the model                                                     *)
(***************************************************************************)
\* number of composite values of a freely shaped value graph
NumIds == 2

\* total number of references held by the composites of such a graph
MaxEdges == 3

\* longest chain of nested composites
MaxChain == 12

\* longest freely chosen ending of a text value
MaxTail == 2

\* length of the short text values
ShortLen == 30

\* longest byte sequence
MaxBytes == 5

(***************************************************************************)
(* str_ind                                                                 *)
(***************************************************************************)
\* the indent types tried by the callers of the model
Styles == {"tabs", "spaces", "columns"}

\* str_ind with a default arm that falls back to tabs instead of raising
StrIndAccepts(indent_type) == FALSE

\* the `case _` arm of str_ind: any other indent type raises ValueError
StrIndRaises(indent_type) == indent_type \notin {"spaces", "tabs"}

\* `' ' * indent`: one space per level, INDENT_SPACES forgotten
SpaceOnePerLevel(indent, indent_type) ==
    IF indent_type = "spaces"
    THEN [ch |-> " ", n |-> indent]
    ELSE [ch |-> "\t", n |-> indent]

\* the prefix `space` of str_ind, as a run of n copies of one character
Space(indent, indent_type) ==
    IF indent_type = "spaces"
    THEN [ch |-> " ", n |-> INDENT_SPACES * indent]
    ELSE [ch |-> "\t", n |-> indent]

\* str_ind of a one-line argument: the sequence of its prefixed lines
str_ind(txt, indent, indent_type) ==
    << [pre |-> Space(indent, indent_type), txt |-> txt] >>

(***************************************************************************)
(* Value graphs                                                            *)
(***************************************************************************)
\* identity of the scalar leaf shared by every reference to it
LeafId == 0

Ids == 1 .. NumIds

SeqKinds == {"list", "tuple"}

CompositeKinds == <<"list", "dict", "object", "tuple">>

ScalarKinds == <<"int", "NoneType", "str", "bytes">>

\* a kind assignment: composite i has kind CompositeKinds[base + step*(i-1)]
Patterns == [base : 0 .. 3, step : {0, 1}]

KindAt(pat, i) ==
    IF i = LeafId
    THEN ScalarKinds[pat.base + 1]
    ELSE CompositeKinds[((pat.base + pat.step * (i - 1)) % 4) + 1]

Edge(key, ref) == [key |-> key, ref |-> ref]

\* the key or attribute name of the reference at position pos: names are
\* distinct within one dict or object
KeyName(pos) == SubSeq("abcdefghijklmnop", pos, pos)

\* what the reference at position pos of composite i may be: a public
\* reference to any value, or a private ("_"-named) reference back to i
EdgeChoices(i, pos) ==
    { Edge(KeyName(pos), r) : r \in Ids \cup {LeafId} }
        \cup { Edge("_" \o KeyName(pos), i) }

NoEdges == [i \in Ids |-> << >>]

EdgeCount(shape) ==
    LET RECURSIVE Sum(_)
        Sum(S) == IF S = {} THEN 0
                  ELSE LET i == CHOOSE j \in S : TRUE
                       IN Len(shape[i]) + Sum(S \ {i})
    IN Sum(Ids)

RECURSIVE ShapesWith(_)
\* every assignment of child sequences to Ids with at most e references
ShapesWith(e) ==
    IF e = 0 THEN {NoEdges}
    ELSE LET prev == ShapesWith(e - 1)
         IN prev \cup
            UNION { { [s EXCEPT ![i] = Append(@, c)] :
                        c \in EdgeChoices(i, Len(s[i]) + 1) } :
                    <<s, i>> \in { t \in prev \X Ids :
                                     EdgeCount(t[1]) = e - 1 } }

MkHeap(pat, shape) ==
    [i \in DOMAIN shape \cup {LeafId} |->
        [kind |-> KindAt(pat, i),
         kids |-> IF i = LeafId THEN << >> ELSE shape[i]]]

\* the freely shaped graphs: cycles, shared references, private references
SmallHeaps == { MkHeap(pat, s) : pat \in Patterns, s \in ShapesWith(MaxEdges) }

ChainTails == {"leaf", "empty", "private", "back"}

\* a chain 1 -> 2 -> ... -> n of composites; the last one holds the leaf,
\* nothing, a private reference to the leaf, or a reference back to 1
ChainShape(n, tail) ==
    [i \in 1 .. n |->
        IF i < n THEN << Edge("a", i + 1) >>
        ELSE CASE tail = "leaf"    -> << Edge("a", LeafId) >>
               [] tail = "empty"   -> << >>
               [] tail = "private" -> << Edge("_a", LeafId) >>
               [] tail = "back"    -> << Edge("a", 1) >>]

ChainHeaps ==
    { MkHeap(pat, ChainShape(n, tail)) :
        pat \in Patterns, n \in 1 .. MaxChain, tail \in ChainTails }

\* 1 holds 2 and 3, two distinct values of equal content that both hold 4
\* (when joined) or each hold the leaf
ForkShape(joined) ==
    [i \in 1 .. 4 |->
        CASE i = 1 -> << Edge("a", 2), Edge("b", 3) >>
          [] i = 4 -> << Edge("a", LeafId) >>
          [] OTHER -> << Edge("a", IF joined THEN 4 ELSE LeafId) >>]

ForkHeaps ==
    { MkHeap(pat, ForkShape(joined)) : pat \in Patterns, joined \in BOOLEAN }

RECURSIVE TupleLoop(_, _, _)
\* following tuples only, node leads back into anc
TupleLoop(h, node, anc) ==
    /\ h[node].kind = "tuple"
    /\ \/ node \in anc
       \/ \E k \in 1 .. Len(h[node].kids) :
             TupleLoop(h, h[node].kids[k].ref, anc \cup {node})

\* a tuple is built after its items: no cycle runs through tuples alone
Constructible(h) == \A i \in DOMAIN h : ~TupleLoop(h, i, {})

Heaps ==
    { h \in SmallHeaps \cup ChainHeaps \cup ForkHeaps : Constructible(h) }

\* the value passed to the top-level call
Root == 1

(***************************************************************************)
(* Pieces of str_recursively                                               *)
(***************************************************************************)
\* type(data).__name__
TypeName(node) ==
    IF heap[node].kind = "object" THEN "Thing" ELSE heap[node].kind

\* no circular-reference test
OnPathNever(vis, id) == FALSE

\* `data_id in visited`
OnPath(vis, id) == id \in vis

\* `visited.add(data_id)`
PathAdd(vis, id) == vis \cup {id}

\* visited kept as a memo of everything seen
PathRemoveNothing(vis, id) == vis

\* `visited.remove(data_id)` when data_id is in the set
PathRemove(vis, id) == vis \ {id}

\* `visited.remove(data_id)` raises KeyError when data_id is not in the set
RemoveRaises(vis, id) == id \notin vis

\* type(data) formatted instead of type(data).__name__
CircularMsgOfType(node) ==
    "<circular reference to <class '" \o TypeName(node) \o "'>>"

CircularMsg(node) == "<circular reference to " \o TypeName(node) \o ">"

\* the text rendered for the scalar kinds (None, bytes, str, numbers)
ScalarMsg(node) ==
    CASE heap[node].kind = "NoneType" -> "None"
      [] heap[node].kind = "bytes"    -> "bytes: 01"
      [] heap[node].kind = "str"      -> "str: x"
      [] heap[node].kind = "int"      -> "int: 1"

Title(node) == IF heap[node].kind = "list" THEN "list:" ELSE "tuple:"

Border(node) == IF heap[node].kind = "list" THEN "[]" ELSE "()"

BorderOpen(node) == IF heap[node].kind = "list" THEN "[" ELSE "("

BorderClose(node) == IF heap[node].kind = "list" THEN "]" ELSE ")"

ObjectMsg(node) == "object of class '" \o TypeName(node) \o "'"

\* `att.startswith('_') or att.startswith('__')`
IsPrivate(att) == SubSeq(att, 1, 1) = "_"

\* filtered_attrs: the attributes whose name is not private, in order
FilteredAttrs(node) == SelectSeq(heap[node].kids, LAMBDA e : ~IsPrivate(e.key))

\* `indent >= MAX_RECURSION_DEPTH`
DepthReached(indent) == indent >= MAX_RECURSION_DEPTH

\* `indent > MAX_RECURSION_DEPTH`
DepthExceeded(indent) == indent > MAX_RECURSION_DEPTH

Marker(key) == "[>] " \o key \o ":"

(***************************************************************************)
(* The call stack                                                          *)
(***************************************************************************)
Top == stack[Len(stack)]

Running == status = "running" /\ stack # << >>

\* the frame of a call that has passed `visited.add(data_id)`;
\* v0 records the visited set the call was entered with
Frame(node, indent, v0) ==
    [node |-> node, indent |-> indent, pc |-> "dispatch", i |-> 1,
     items |-> << >>, result |-> << >>, v0 |-> v0]

\* what a completed top-level call gave: its indent type, how it ended, the
\* error raised and the string returned
Outcome(indent_type, how, kind, lines) ==
    [style |-> indent_type, status |-> how, err |-> kind, out |-> lines]

NoOutcome == Outcome("", "none", "none", << >>)

\* the history of completed top-level calls, kept when `on`: their number up
\* to 2, the outcome of the first, and whether a later one failed
NoLog == [on |-> FALSE, n |-> 0, first |-> NoOutcome, failed |-> FALSE]

Logged(l, o) ==
    IF ~l.on THEN l
    ELSE IF l.n = 0 THEN [l EXCEPT !.n = 1, !.first = o]
         ELSE [l EXCEPT !.n = 2, !.failed = @ \/ o.status = "error"]

\* an exception leaves through every frame: nothing catches it
Raises(kind, vis) ==
    /\ visited' = vis
    /\ stack' = << >>
    /\ status' = "error"
    /\ err' = kind
    /\ out' = << >>
    /\ log' = Logged(log, Outcome(style, "error", kind, << >>))
    /\ UNCHANGED <<heap, style, arg, ret>>

\* `return lines` of the top frame, with the visited set left as vis; the
\* caller appends the returned string to its result
Returns(lines, vis) ==
    /\ visited' = vis
    /\ IF Len(stack) = 1
       THEN /\ stack' = << >>
            /\ status' = "done"
            /\ out' = lines
            /\ log' = Logged(log, Outcome(style, "done", err, lines))
       ELSE /\ stack' = [SubSeq(stack, 1, Len(stack) - 1)
                           EXCEPT ![Len(stack) - 1].result = @ \o lines]
            /\ UNCHANGED <<status, out, log>>
    /\ UNCHANGED <<heap, style, err, arg, ret>>

\* `visited.remove(data_id)` then `return str_ind( txt, indent, indent_type)`
RemoveAndReturn(txt) ==
    IF RemoveRaises(visited, Top.node)
    THEN Raises("KeyError", visited)
    ELSE IF StrIndRaises(style)
         THEN Raises("ValueError", PathRemove(visited, Top.node))
         ELSE Returns(str_ind(txt, Top.indent, style),
                      PathRemove(visited, Top.node))

\* the composite exit without its `visited.remove(data_id)`
AppendAndJoinKeepingPath(txt, indent) ==
    IF StrIndRaises(style)
    THEN Raises("ValueError", visited)
    ELSE Returns(Top.result \o str_ind(txt, indent, style), visited)

\* `result.append( str_ind( txt, ...))`, `visited.remove(data_id)`,
\* `return '\n'.join(result)`
AppendRemoveAndJoin(txt, indent) ==
    IF StrIndRaises(style)
    THEN Raises("ValueError", visited)
    ELSE IF RemoveRaises(visited, Top.node)
         THEN Raises("KeyError", visited)
         ELSE Returns(Top.result \o str_ind(txt, indent, style),
                      PathRemove(visited, Top.node))

\* the first lines of str_recursively( node, indent, style, visited) made by
\* a caller whose frames are stk: the circular-reference test and the add
Call(stk, node, indent) ==
    IF OnPath(visited, node)
    THEN IF StrIndRaises(style)
         THEN Raises("ValueError", visited)
         ELSE /\ stack' = [stk EXCEPT ![Len(stk)].result =
                             @ \o str_ind(CircularMsg(node), indent, style)]
              /\ UNCHANGED <<heap, style, visited, status, err, out, arg, ret, log>>
    ELSE /\ visited' = PathAdd(visited, node)
         /\ stack' = Append(stk, Frame(node, indent, visited))
         /\ UNCHANGED <<heap, style, status, err, out, arg, ret, log>>

\* `result.append( str_ind( marker, indent, ...))` and
\* `result.append( str_recursively( item, indent + 1, indent_type, visited))`
\* up to the point where the callee has entered or returned circular
MarkAndRecurse ==
    LET e == Top.items[Top.i]
    IN IF StrIndRaises(style)
       THEN Raises("ValueError", visited)
       ELSE Call([stack EXCEPT ![Len(stack)].result =
                     @ \o str_ind(Marker(e.key), Top.indent, style),
                  ![Len(stack)].i = @ + 1],
                 e.ref, Top.indent + 1)

\* the header lines of a non-empty composite, then the loop over items
OpenWith(lines, items) ==
    IF StrIndRaises(style)
    THEN Raises("ValueError", visited)
    ELSE /\ stack' = [stack EXCEPT ![Len(stack)].result = lines,
                                   ![Len(stack)].items = items,
                                   ![Len(stack)].pc = "loop"]
         /\ UNCHANGED <<heap, style, visited, status, err, out, arg, ret, log>>

(***************************************************************************)
(* Actions of the traversal                                                *)
(***************************************************************************)
\* a default argument `visited = set()`, one set shared by every call
VisitedShared(old) == old

\* `if visited is None : visited = set()`: old is the set left by the calls
\* before; a call without a visited argument does not see it
NewVisited(old) == {}

\* a top-level call str_recursively( data, 0, indent_type), as made by
\* print_recursively: visited is None; then the first lines of the call
TopCall(indent_type) ==
    /\ status # "running"
    /\ arg = "graph"
    /\ style' = indent_type
    /\ LET vis == NewVisited(visited)
       IN IF OnPath(vis, Root)
          THEN /\ visited' = vis
               /\ stack' = << >>
               /\ IF StrIndRaises(indent_type)
                  THEN /\ status' = "error"
                       /\ err' = "ValueError"
                       /\ out' = << >>
                  ELSE /\ status' = "done"
                       /\ err' = "none"
                       /\ out' = str_ind(CircularMsg(Root), 0, indent_type)
               /\ log' = Logged(log, Outcome(indent_type, status', err', out'))
          ELSE /\ status' = "running"
               /\ err' = "none"
               /\ out' = << >>
               /\ visited' = PathAdd(vis, Root)
               /\ stack' = << Frame(Root, 0, vis) >>
               /\ UNCHANGED log
    /\ UNCHANGED <<heap, arg, ret>>

Scalar ==
    /\ Running /\ Top.pc = "dispatch"
    /\ heap[Top.node].kind \in {"NoneType", "bytes", "str", "int"}
    /\ RemoveAndReturn(ScalarMsg(Top.node))

SeqEmpty ==
    /\ Running /\ Top.pc = "dispatch"
    /\ heap[Top.node].kind \in SeqKinds
    /\ heap[Top.node].kids = << >>
    /\ RemoveAndReturn(Title(Top.node) \o " " \o Border(Top.node))

SeqOpen ==
    /\ Running /\ Top.pc = "dispatch"
    /\ heap[Top.node].kind \in SeqKinds
    /\ heap[Top.node].kids # << >>
    /\ OpenWith(str_ind(Title(Top.node), Top.indent, style)
                  \o str_ind(BorderOpen(Top.node), Top.indent, style),
                [k \in 1 .. Len(heap[Top.node].kids) |->
                    Edge("item", heap[Top.node].kids[k].ref)])

SeqItem ==
    /\ Running /\ Top.pc = "loop"
    /\ heap[Top.node].kind \in SeqKinds
    /\ Top.i <= Len(Top.items)
    /\ MarkAndRecurse

SeqClose ==
    /\ Running /\ Top.pc = "loop"
    /\ heap[Top.node].kind \in SeqKinds
    /\ Top.i > Len(Top.items)
    /\ AppendRemoveAndJoin(BorderClose(Top.node), Top.indent)

DictEmpty ==
    /\ Running /\ Top.pc = "dispatch"
    /\ heap[Top.node].kind = "dict"
    /\ heap[Top.node].kids = << >>
    /\ RemoveAndReturn("dict: {}")

DictOpen ==
    /\ Running /\ Top.pc = "dispatch"
    /\ heap[Top.node].kind = "dict"
    /\ heap[Top.node].kids # << >>
    /\ OpenWith(str_ind("dict:", Top.indent, style)
                  \o str_ind("{", Top.indent, style),
                heap[Top.node].kids)

DictItem ==
    /\ Running /\ Top.pc = "loop"
    /\ heap[Top.node].kind = "dict"
    /\ Top.i <= Len(Top.items)
    /\ MarkAndRecurse

DictClose ==
    /\ Running /\ Top.pc = "loop"
    /\ heap[Top.node].kind = "dict"
    /\ Top.i > Len(Top.items)
    /\ AppendRemoveAndJoin("}", Top.indent)

\* the object header, then the depth test that stops the expansion
ObjTruncate ==
    /\ Running /\ Top.pc = "dispatch"
    /\ heap[Top.node].kind = "object"
    /\ DepthExceeded(Top.indent)
    /\ IF StrIndRaises(style)
       THEN Raises("ValueError", visited)
       ELSE IF RemoveRaises(visited, Top.node)
            THEN Raises("KeyError", visited)
            ELSE Returns(str_ind(ObjectMsg(Top.node), Top.indent, style)
                           \o str_ind("<max depth reached>", Top.indent + 1, style),
                         PathRemove(visited, Top.node))

\* an object with no public attribute: the header alone
ObjBare ==
    /\ Running /\ Top.pc = "dispatch"
    /\ heap[Top.node].kind = "object"
    /\ ~DepthExceeded(Top.indent)
    /\ FilteredAttrs(Top.node) = << >>
    /\ IF StrIndRaises(style)
       THEN Raises("ValueError", visited)
       ELSE IF RemoveRaises(visited, Top.node)
            THEN Raises("KeyError", visited)
            ELSE Returns(str_ind(ObjectMsg(Top.node), Top.indent, style),
                         PathRemove(visited, Top.node))

ObjOpen ==
    /\ Running /\ Top.pc = "dispatch"
    /\ heap[Top.node].kind = "object"
    /\ ~DepthExceeded(Top.indent)
    /\ FilteredAttrs(Top.node) # << >>
    /\ OpenWith(str_ind(ObjectMsg(Top.node), Top.indent, style)
                  \o str_ind("{", Top.indent, style),
                FilteredAttrs(Top.node))

ObjItem ==
    /\ Running /\ Top.pc = "loop"
    /\ heap[Top.node].kind = "object"
    /\ Top.i <= Len(Top.items)
    /\ MarkAndRecurse

ObjClose ==
    /\ Running /\ Top.pc = "loop"
    /\ heap[Top.node].kind = "object"
    /\ Top.i > Len(Top.items)
    /\ AppendRemoveAndJoin("}", Top.indent)

Step ==
    \/ Scalar
    \/ SeqEmpty \/ SeqOpen \/ SeqItem \/ SeqClose
    \/ DictEmpty \/ DictOpen \/ DictItem \/ DictClose
    \/ ObjTruncate \/ ObjBare \/ ObjOpen \/ ObjItem \/ ObjClose

Init ==
    /\ heap \in Heaps
    /\ style = DEFAULT_INDENT
    /\ stack = << >>
    /\ visited = {}
    /\ status = "idle"
    /\ err = "none"
    /\ out = << >>
    /\ arg = "graph"
    /\ ret = << >>
    /\ log = NoLog

Next ==
    \/ \E t \in Styles : TopCall(t)
    \/ Scalar
    \/ SeqEmpty \/ SeqOpen \/ SeqItem \/ SeqClose
    \/ DictEmpty \/ DictOpen \/ DictItem \/ DictClose
    \/ ObjTruncate \/ ObjBare \/ ObjOpen \/ ObjItem \/ ObjClose

Spec == Init /\ [][Next]_vars

\* the recursion is synchronous: a call that has started keeps running
FairSpec == Spec /\ WF_vars(Step)

\* the graphs rendered again and again: the freely shaped ones with one
\* reference less, the forks and the longest chains
RepeatHeaps ==
    { h \in { MkHeap(pat, s) : pat \in Patterns, s \in ShapesWith(MaxEdges - 1) }
               \cup ForkHeaps
               \cup { MkHeap(pat, ChainShape(MaxChain, tail)) :
                        pat \in Patterns, tail \in ChainTails } :
        Constructible(h) }

InitRepeat ==
    /\ heap \in RepeatHeaps
    /\ style = DEFAULT_INDENT
    /\ stack = << >>
    /\ visited = {}
    /\ status = "idle"
    /\ err = "none"
    /\ out = << >>
    /\ arg = "graph"
    /\ ret = << >>
    /\ log = [NoLog EXCEPT !.on = TRUE]

\* top-level calls one after another, with the history of their outcomes
SpecRepeat == InitRepeat /\ [][Next]_vars

(***************************************************************************)
(* Vocabulary of the properties                                            *)
(***************************************************************************)
\* the values whose calls are in progress
ChainSet == { stack[k].node : k \in 1 .. Len(stack) }

\* the depth a rendered line is indented to
LineDepth(l) == IF l.pre.ch = " " THEN l.pre.n \div INDENT_SPACES ELSE l.pre.n

IsLine(l, depth, txt) == LineDepth(l) = depth /\ l.txt = txt

KindName(node) ==
    IF heap[node].kind = "object" THEN "Thing" ELSE heap[node].kind

CircularLine(node) == "<circular reference to " \o KindName(node) \o ">"

CircularTexts == { CircularLine(n) : n \in DOMAIN heap }

\* the references str_recursively follows out of a value
Followed(node) ==
    IF heap[node].kind = "object"
    THEN SelectSeq(heap[node].kids, LAMBDA e : SubSeq(e.key, 1, 1) # "_")
    ELSE heap[node].kids

RECURSIVE ReachesAncestor(_, _)
\* some path of followed references from node re-enters node or one of anc
ReachesAncestor(node, anc) ==
    \/ node \in anc
    \/ \E k \in 1 .. Len(Followed(node)) :
          ReachesAncestor(Followed(node)[k].ref, anc \cup {node})

Acyclic == ~ReachesAncestor(Root, {})

\* the top frame is about to call str_recursively on one of its ancestors
AtAncestor ==
    /\ Running /\ Top.pc = "loop" /\ Top.i <= Len(Top.items)
    /\ Top.items[Top.i].ref \in ChainSet
    /\ style \in {"tabs", "spaces"}

(***************************************************************************)
(* C1                                                                      *)
(***************************************************************************)
PathIsChain ==
    Running => /\ visited = ChainSet
               /\ Cardinality(visited) = Len(stack)

CallKeepsPath ==
    /\ (status = "running" /\ Len(stack') = Len(stack) + 1)
          => /\ stack'[Len(stack')].v0 = visited
             /\ visited' = visited \cup {stack'[Len(stack')].node}
    /\ (status' # "error" /\ Len(stack') = Len(stack) - 1)
          => visited' = Top.v0
    /\ (status' = "running" /\ Len(stack') = Len(stack))
          => visited' = visited

\* C1: while a top-level call started with an empty path runs, visited holds
\* exactly the identities of the values on the current ancestor chain, each
\* once; a call that returns normally leaves visited as it was when the call
\* was entered, and the call that detects a cycle leaves it untouched.
C1_PathIsAncestorChain == []PathIsChain /\ [][CallKeepsPath]_vars

\* a cycle has been detected below the top-level call and rendering goes on
C1_Witness ==
    /\ Running /\ Len(stack) >= 2
    /\ \E j \in 1 .. Len(Top.result) : Top.result[j].txt \in CircularTexts

(***************************************************************************)
(* C2                                                                      *)
(***************************************************************************)
\* C2: when a call fails with the invalid-indent-style error, the visited
\* set after the failure equals the visited set before the call (empty for
\* a top-level call).
C2_PathRestoredOnError ==
    (status = "error" /\ err = "ValueError") => visited = {}

(***************************************************************************)
(* C3                                                                      *)
(***************************************************************************)
\* the call on an ancestor adds the item marker and one circular line at
\* the callee's depth to the caller's result, and starts no new frame
AncestorCutShort ==
    AtAncestor =>
        LET n == Top.items[Top.i].ref
            r == stack'[Len(stack)].result
        IN /\ Len(stack') = Len(stack)
           /\ Len(r) = Len(Top.result) + 2
           /\ SubSeq(r, 1, Len(Top.result)) = Top.result
           /\ IsLine(r[Len(r)], Top.indent + 1, CircularLine(n))
           /\ stack'[Len(stack)].i = Top.i + 1

\* a value holding only itself: a = [a], {"a": a}, or o.a = o
SelfHolder ==
    /\ Len(heap[Root].kids) = 1
    /\ heap[Root].kids[1] = [key |-> "a", ref |-> Root]

SelfHolderRendered ==
    (status = "done" /\ SelfHolder) =>
        /\ Len(out) = 5
        /\ IsLine(out[4], 1, CircularLine(Root))
        /\ \A j \in {1, 2, 3, 5} : LineDepth(out[j]) = 0
        /\ heap[Root].kind = "list" =>
              <<out[1].txt, out[2].txt, out[3].txt, out[5].txt>>
                 = <<"list:", "[", "[>] item:", "]">>

\* C3: a list, tuple, dict or object reached while it is on the current
\* ancestor chain is rendered as the one line "<circular reference to
\* <type name>>" at the current depth, none of its children is visited, and
\* the enclosing renders complete (a = [a] gives "list:", "[", the item
\* marker, the circular line, "]").
C3_CircularReference == [][AncestorCutShort]_vars /\ []SelfHolderRendered

\* a = [a] has been rendered to the end
C3_Witness ==
    /\ status = "done" /\ SelfHolder /\ heap[Root].kind = "list"
    /\ out[4].txt = "<circular reference to list>"

(***************************************************************************)
(* C4                                                                      *)
(***************************************************************************)
RECURSIVE FullLines(_, _)
\* the number of lines of the full rendering of node at depth d
FullLines(node, d) ==
    LET its == Followed(node)
        RECURSIVE Below(_)
        Below(k) == IF k > Len(its) THEN 0
                    ELSE 1 + FullLines(its[k].ref, d + 1) + Below(k + 1)
    IN CASE heap[node].kind \in {"int", "NoneType", "str", "bytes"} -> 1
         [] heap[node].kind = "object" /\ d > 10 -> 2
         [] OTHER -> IF its = << >> THEN 1 ELSE 3 + Below(1)

NoCircularLine(lines) ==
    \A j \in 1 .. Len(lines) : lines[j].txt \notin CircularTexts

\* C4: in a value graph where no value is its own ancestor, whatever is
\* shared between siblings or branches, no occurrence is rendered as a
\* circular reference and every occurrence is rendered in full.
C4_SharedRenderedInFull ==
    Acyclic =>
        /\ \A k \in 1 .. Len(stack) : NoCircularLine(stack[k].result)
        /\ NoCircularLine(out)
        /\ status = "done" => Len(out) = FullLines(Root, 0)

\* a = [b, b] with b non-empty has been rendered to the end
C4_Witness ==
    /\ status = "done" /\ Acyclic
    /\ heap[Root].kind \in {"list", "tuple", "dict", "object"}
    /\ Len(Followed(Root)) = 2
    /\ Followed(Root)[1].ref = Followed(Root)[2].ref
    /\ Followed(Root)[1].ref # LeafId
    /\ Followed(Followed(Root)[1].ref) # << >>

(***************************************************************************)
(* C5                                                                      *)
(***************************************************************************)
ValidStyle == style \in {"tabs", "spaces"}

\* no descent is longer than the number of distinct values of the graph
DescentBounded == Running => Len(stack) <= Cardinality(DOMAIN heap)

\* C5: with a valid indent style, a top-level call on any finite value
\* graph, cyclic or not, eventually returns; the descent never holds more
\* calls than the graph has values, each cycle being cut at the first
\* re-entry into an ancestor.
C5_Terminates ==
    /\ (status = "running" /\ ValidStyle) ~> (status = "done")
    /\ []DescentBounded

\* a call on a graph with a cycle through two values has returned
C5_Witness ==
    /\ status = "done" /\ ~Acyclic
    /\ \E j \in 1 .. Len(out) :
          /\ out[j].txt \in CircularTexts
          /\ LineDepth(out[j]) >= 2

ObjectChain ==
    LET n == Cardinality(DOMAIN heap) - 1
    IN /\ \A i \in 1 .. n : heap[i].kind = "object"
       /\ \A i \in 1 .. n - 1 : heap[i].kids = << [key |-> "a", ref |-> i + 1] >>
       /\ \A k \in 1 .. Len(heap[n].kids) : heap[n].kids[k].ref = LeafId

ObjectHeader == "object of class 'Thing'"

TruncationLine == "<max depth reached>"

\* C7: in the rendering of a chain of objects from depth 0, the object at
\* depth 11 gives its header and the truncation marker and none of its
\* attributes; an object at a depth up to 10 is never truncated and, when
\* it has a non-private attribute, is expanded: opening brace, then the
\* marker of that attribute.
C7_ObjectDepthCutoff ==
    (status = "done" /\ ObjectChain) =>
        \A j \in 1 .. Len(out) :
            out[j].txt = ObjectHeader =>
                LET d == LineDepth(out[j])
                IN IF d > 10
                   THEN /\ d = 11
                        /\ j + 1 = Len(out) - 11
                        /\ IsLine(out[j + 1], d + 1, TruncationLine)
                        /\ IsLine(out[j + 2], d - 1, "}")
                   ELSE /\ j + 1 <= Len(out) => out[j + 1].txt # TruncationLine
                        /\ Followed(d + 1) # << >> =>
                              /\ IsLine(out[j + 1], d, "{")
                              /\ IsLine(out[j + 2], d, "[>] a:")

\* a chain of 12 objects has been rendered: the last one is 11 levels deep
C7_Witness ==
    /\ status = "done" /\ ObjectChain
    /\ Cardinality(DOMAIN heap) - 1 = 12
    /\ \E j \in 1 .. Len(out) : out[j].txt = TruncationLine

(***************************************************************************)
(* C8                                                                      *)
(***************************************************************************)
\* C8: in an acyclic value graph, whatever the kinds of the composites, no
\* call renders children below a value whose depth exceeds the maximum
\* recursion depth of 10.
C8_DepthBoundedAllKinds ==
    Acyclic =>
        \A k \in 1 .. Len(stack) :
            stack[k].pc = "loop" => stack[k].indent <= 10

(***************************************************************************)
(* Strings as sequences of characters                                      *)
(***************************************************************************)
Chars(str) == [i \in 1 .. Len(str) |-> SubSeq(str, i, i)]

Repeat(c, n) == [i \in 1 .. n |-> c]

\* the prefix `space` of str_ind, character by character
SpaceChars(indent, indent_type) ==
    Repeat(Space(indent, indent_type).ch, Space(indent, indent_type).n)

RECURSIVE IndentChars(_, _)
\* str_ind on characters: split at '\n', prefix every line, join with '\n'
IndentChars(s, space) ==
    LET nl == { i \in 1 .. Len(s) : s[i] = "\n" }
    IN IF nl = {} THEN space \o s
       ELSE LET i == CHOOSE j \in nl : \A k \in nl : j <= k
            IN space \o SubSeq(s, 1, i)
                 \o IndentChars(SubSeq(s, i + 1, Len(s)), space)

(***************************************************************************)
(* Text values: the Base64 check                                           *)
(***************************************************************************)
Upper == {"A", "B", "C", "D", "E", "F", "G", "H", "I", "J", "K", "L", "M",
          "N", "O", "P", "Q", "R", "S", "T", "U", "V", "W", "X", "Y", "Z"}

Lower == {"a", "b", "c", "d", "e", "f", "g", "h", "i", "j", "k", "l", "m",
          "n", "o", "p", "q", "r", "s", "t", "u", "v", "w", "x", "y", "z"}

Digits == {"0", "1", "2", "3", "4", "5", "6", "7", "8", "9"}

\* the character class [A-Za-z0-9+/=]
b64_chars == Upper \cup Lower \cup Digits \cup {"+", "/", "="}

\* `$` of the re module after the first k characters of s: the end of the
\* string, or just before a newline that is its last character
DollarAt(s, k) ==
    \/ k = Len(s)
    \/ k = Len(s) - 1 /\ s[Len(s)] = "\n"

\* `[A-Za-z0-9+/=]+$` matched from position from
B64RunToDollar(s, from) ==
    \E k \in {Len(s) - 1, Len(s)} :
        /\ k >= from
        /\ DollarAt(s, k)
        /\ \A i \in from .. k : s[i] \in b64_chars

HasLiteral(s, from, lit) ==
    /\ from + Len(lit) - 1 <= Len(s)
    /\ \A i \in 1 .. Len(lit) : s[from + i - 1] = lit[i]

\* match( r'data:image/[a-z]+;base64,[A-Za-z0-9+/=]+$', data)
MatchDataUri(s) ==
    /\ HasLiteral(s, 1, Chars("data:image/"))
    /\ \E j \in 1 .. Len(s) :
          /\ \A i \in 12 .. 11 + j : i <= Len(s) /\ s[i] \in Lower
          /\ HasLiteral(s, 12 + j, Chars(";base64,"))
          /\ B64RunToDollar(s, 20 + j)

\* match( r'[A-Za-z0-9+/=]+$', data)
MatchB64(s) == B64RunToDollar(s, 1)

\* the `isinstance( data, str)` branch of a top-level call
StrText(s, indent, indent_type) ==
    IF Len(s) >= B64_CHECK_LEN /\ (MatchDataUri(s) \/ MatchB64(s))
    THEN IndentChars(Chars("str: [Base64 Image Enconding]"),
                     SpaceChars(indent, indent_type))
    ELSE IndentChars(Chars("str: ") \o s, SpaceChars(indent, indent_type))

\* beginnings of the text values tried
TextHeads ==
    { << >>, Chars("data:image/png;base64,"), Chars("data:image/;base64,"),
      Chars("data:image/PNG;base64,"), Chars("!"), Chars("\n") }

TailChars == {"A", "=", "\n", "!"}

TextTails == UNION { [1 .. n -> TailChars] : n \in 0 .. MaxTail }

TextLens == {ShortLen, B64_CHECK_LEN - 1, B64_CHECK_LEN, B64_CHECK_LEN + 1}

\* a text value: head, then "A" repeated, then tail, len characters in all
TextArgs ==
    [kind : {"str"}, head : TextHeads, tail : TextTails, len : TextLens]

TextOf(a) ==
    a.head \o Repeat("A", a.len - Len(a.head) - Len(a.tail)) \o a.tail

InitText ==
    /\ arg \in TextArgs
    /\ ret = << >>
    /\ log = NoLog
    /\ heap = << >>
    /\ style = DEFAULT_INDENT
    /\ stack = << >>
    /\ visited = {}
    /\ status = "idle"
    /\ err = "none"
    /\ out = << >>

\* str_recursively( data) for a text value
RenderText ==
    /\ status = "idle"
    /\ arg.kind = "str"
    /\ ret' = StrText(TextOf(arg), 0, style)
    /\ status' = "done"
    /\ UNCHANGED <<heap, style, stack, visited, err, out, arg, log>>

SpecText == InitText /\ [][RenderText]_vars

(***************************************************************************)
(* Byte sequences: the preview                                             *)
(***************************************************************************)
HexDigits == Chars("0123456789abcdef")

\* f'{b:02x}'
Hex02(b) == << HexDigits[(b \div 16) + 1], HexDigits[(b % 16) + 1] >>

RECURSIVE JoinSpace(_)
\* ' '.join( ... )
JoinSpace(parts) ==
    IF parts = << >> THEN << >>
    ELSE IF Len(parts) = 1 THEN parts[1]
         ELSE parts[1] \o << " " >> \o JoinSpace(Tail(parts))

Min(a, b) == IF a < b THEN a ELSE b

\* `len(data) >= 4`
FourOrMore(data) == Len(data) >= 4

\* `len(data) > 4`
MoreThanShown(data) == Len(data) > 4

\* the `isinstance( data, bytes)` branch of a top-level call
StrBytes(data, indent, indent_type) ==
    LET display_len == Min(4, Len(data))
        shown       == SubSeq(data, 1, display_len)
        shown_str   == JoinSpace([i \in 1 .. Len(shown) |-> Hex02(shown[i])])
    IN IndentChars(Chars("bytes: ") \o shown_str
                     \o (IF MoreThanShown(data) THEN Chars(" ...") ELSE << >>),
                   SpaceChars(indent, indent_type))

ByteValues == {0, 10, 171, 255}

BytesArgs ==
    [kind : {"bytes"},
     data : UNION { [1 .. n -> ByteValues] : n \in 0 .. MaxBytes }]

InitBytes ==
    /\ arg \in BytesArgs
    /\ ret = << >>
    /\ log = NoLog
    /\ heap = << >>
    /\ style = DEFAULT_INDENT
    /\ stack = << >>
    /\ visited = {}
    /\ status = "idle"
    /\ err = "none"
    /\ out = << >>

\* str_recursively( data) for a byte sequence
RenderBytes ==
    /\ status = "idle"
    /\ arg.kind = "bytes"
    /\ ret' = StrBytes(arg.data, 0, style)
    /\ status' = "done"
    /\ UNCHANGED <<heap, style, stack, visited, err, out, arg, log>>

SpecBytes == InitBytes /\ [][RenderBytes]_vars

(***************************************************************************)
(* C9                                                                      *)
(***************************************************************************)
OnlyB64(s, from) == from <= Len(s) /\ \A i \in from .. Len(s) : s[i] \in b64_chars

\* data:image/<letters>;base64, then base64 characters to the very end
DataUriOfB64(s) ==
    \E j \in 1 .. 8 :
        /\ 19 + j < Len(s)
        /\ SubSeq(s, 1, 11) = Chars("data:image/")
        /\ \A i \in 12 .. 11 + j : s[i] \in Lower
        /\ SubSeq(s, 12 + j, 19 + j) = Chars(";base64,")
        /\ OnlyB64(s, 20 + j)

\* C9: a text value is rendered as the placeholder exactly when it has at
\* least 2000 characters and is, to its last character, either the data-URI
\* prefix followed by base64 characters or base64 characters alone; every
\* other text value is rendered as "str: " followed by the text itself.
C9_TextClassification ==
    (status = "done" /\ arg.kind = "str") =>
        LET s == TextOf(arg)
            elided == Len(s) >= 2000 /\ (DataUriOfB64(s) \/ OnlyB64(s, 1))
        IN IF elided
           THEN ret = Chars("str: [Base64 Image Enconding]")
           ELSE ret = Chars("str: ") \o s

(***************************************************************************)
(* C10                                                                     *)
(***************************************************************************)
LowerHex == { Chars("0123456789abcdef")[k] : k \in 1 .. 16 }

HexValue(c) == (CHOOSE k \in 1 .. 16 : Chars("0123456789abcdef")[k] = c) - 1

\* C10: a byte sequence is rendered as "bytes: ", then the two-digit
\* lowercase hexadecimal pairs of its first min(4, length) bytes in order,
\* separated by single spaces, then " ..." exactly when it is longer than
\* 4 bytes.
C10_BinaryPreview ==
    (status = "done" /\ arg.kind = "bytes") =>
        LET n    == Len(arg.data)
            k    == IF n < 4 THEN n ELSE 4
            body == IF k = 0 THEN 0 ELSE 3 * k - 1
            at(i) == 7 + 3 * (i - 1)
        IN /\ Len(ret) = 7 + body + (IF n > 4 THEN 4 ELSE 0)
           /\ SubSeq(ret, 1, 7) = <<"b", "y", "t", "e", "s", ":", " ">>
           /\ \A i \in 1 .. k :
                /\ ret[at(i) + 1] \in LowerHex
                /\ ret[at(i) + 2] \in LowerHex
                /\ 16 * HexValue(ret[at(i) + 1]) + HexValue(ret[at(i) + 2])
                     = arg.data[i]
                /\ i > 1 => ret[at(i)] = " "
           /\ n > 4 => SubSeq(ret, 7 + body + 1, 7 + body + 4)
                         = <<" ", ".", ".", ".">>

\* a sequence of more than 4 bytes has been rendered
C10_Witness ==
    /\ status = "done" /\ arg.kind = "bytes"
    /\ Len(arg.data) = 5
    /\ ret = Chars("bytes: ab 00 ff 0a ...")

(***************************************************************************)
(* C11                                                                     *)
(***************************************************************************)
\* d indent units: d tabs, or 4 spaces for each of d levels
Units(d) ==
    IF style = "spaces" THEN [ch |-> " ", n |-> 4 * d]
    ELSE [ch |-> "\t", n |-> d]

Indented(d, txt) == [pre |-> Units(d), txt |-> txt]

HeaderOf(node) ==
    CASE heap[node].kind = "list"   -> "list:"
      [] heap[node].kind = "tuple"  -> "tuple:"
      [] heap[node].kind = "dict"   -> "dict:"
      [] heap[node].kind = "object" -> "object of class 'Thing'"

OpenOf(node) ==
    CASE heap[node].kind = "list"  -> "["
      [] heap[node].kind = "tuple" -> "("
      [] OTHER                     -> "{"

CloseOf(node) ==
    CASE heap[node].kind = "list"  -> "]"
      [] heap[node].kind = "tuple" -> ")"
      [] OTHER                     -> "}"

MarkerOf(node, e) ==
    IF heap[node].kind \in {"list", "tuple"} THEN "[>] item:"
    ELSE "[>] " \o e.key \o ":"

OneLineOf(node) ==
    CASE heap[node].kind = "list"     -> "list: []"
      [] heap[node].kind = "tuple"    -> "tuple: ()"
      [] heap[node].kind = "dict"     -> "dict: {}"
      [] heap[node].kind = "object"   -> "object of class 'Thing'"
      [] heap[node].kind = "NoneType" -> "None"
      [] heap[node].kind = "bytes"    -> "bytes: 01"
      [] heap[node].kind = "str"      -> "str: x"
      [] heap[node].kind = "int"      -> "int: 1"

RECURSIVE Layout(_, _, _)
\* the lines of node at depth d below the ancestors anc: the container's own
\* lines at d units, every child at d + 1 directly after its marker, the
\* children in their order
Layout(node, d, anc) ==
    LET its == Followed(node)
        RECURSIVE Items(_)
        Items(k) ==
            IF k > Len(its) THEN << >>
            ELSE << Indented(d, MarkerOf(node, its[k])) >>
                   \o Layout(its[k].ref, d + 1, anc \cup {node})
                   \o Items(k + 1)
    IN IF node \in anc THEN << Indented(d, CircularLine(node)) >>
       ELSE IF heap[node].kind = "object" /\ d > 10
            THEN << Indented(d, HeaderOf(node)),
                    Indented(d + 1, TruncationLine) >>
            ELSE IF its = << >> THEN << Indented(d, OneLineOf(node)) >>
                 ELSE << Indented(d, HeaderOf(node)), Indented(d, OpenOf(node)) >>
                        \o Items(1)
                        \o << Indented(d, CloseOf(node)) >>

\* C11: the output of a call is laid out by depth: a non-empty container at
\* depth d has its header, brackets and markers at exactly d indent units
\* (d tabs, or 4 * d spaces), each child follows its marker, rendered at
\* depth d + 1 and inserted as returned, the children come in their order,
\* and depth 0 has no prefix; the same holds of what the call being
\* executed has collected so far.
C11_IndentationDiscipline ==
    /\ status = "done" =>
          /\ out = Layout(Root, 0, {})
          /\ out[1].pre.n = 0
    /\ Running =>
          LET k == Len(stack)
              full == Layout(Top.node, Top.indent,
                             { stack[j].node : j \in 1 .. k - 1 })
          IN /\ Top.indent = k - 1
             /\ Len(Top.result) <= Len(full)
             /\ Top.result = SubSeq(full, 1, Len(Top.result))

\* two children of one container, the first a non-empty container itself,
\* have been rendered in spaces mode
C11_Witness ==
    /\ status = "done" /\ style = "spaces"
    /\ Len(Followed(Root)) = 2
    /\ Followed(Root)[1].ref # LeafId
    /\ Followed(Root)[1].ref # Root
    /\ Followed(Followed(Root)[1].ref) # << >>
    /\ \E j \in 1 .. Len(out) : out[j].pre = [ch |-> " ", n |-> 8]

(***************************************************************************)
(* C12                                                                     *)
(***************************************************************************)
Completed == status \in {"done", "error"}

====
